---- MODULE Spec2Model ----
(***************************************************************************)
(* Model of pyzusi3/nodes.py: the BasicNode encoder (typed content and     *)
(* node framing) and the StreamDecoder finite-state machine.               *)
(*                                                                         *)
(* Python values are tagged records [t, v]: None, int, bytes and str.      *)
(* Python ints are arbitrary precision, so an int is a sign and a          *)
(* little-endian base-256 magnitude without leading zero digits; this      *)
(* keeps the 32 and 64 bit limits of the content kinds exact.              *)
(* bytes are sequences of 0..255, str are sequences of code points.        *)
(* Exceptions are results [exc, val] with exc the exception class name.    *)
(* The SINGLE and DOUBLE branches of _encodecontent (IEEE-754 packing)     *)
(* are outside the modelled content kinds.                                 *)
(***************************************************************************)
EXTENDS Integers, Sequences, FiniteSets, TLC

(***************************************************************************)
(* Python values                                                           *)
(***************************************************************************)
None == [t |-> "None", v |-> <<>>]

PyBytes(b) == [t |-> "bytes", v |-> b]

PyStr(s) == [t |-> "str", v |-> s]

Ok(x) == [exc |-> "none", val |-> x]

Raise(e) == [exc |-> e, val |-> <<>>]

RECURSIVE Strip(_)
\* drop the most significant zero digits of a little-endian magnitude
Strip(m) ==
    IF m = <<>> THEN <<>>
    ELSE IF m[Len(m)] = 0 THEN Strip(SubSeq(m, 1, Len(m) - 1))
    ELSE m

RECURSIVE NatMag(_)
\* base-256 little-endian digits of a natural number
NatMag(n) == IF n = 0 THEN <<>> ELSE <<n % 256>> \o NatMag(n \div 256)

BigInt(neg, mag) ==
    [t |-> "int", v |-> [neg |-> neg /\ Strip(mag) # <<>>, mag |-> Strip(mag)]]

PyInt(n) == IF n < 0 THEN BigInt(TRUE, NatMag(0 - n)) ELSE BigInt(FALSE, NatMag(n))

RECURSIVE MagLess(_, _)
\* a < b on magnitudes
MagLess(a, b) ==
    IF Len(a) # Len(b) THEN Len(a) < Len(b)
    ELSE IF a = <<>> THEN FALSE
    ELSE IF a[Len(a)] # b[Len(b)] THEN a[Len(a)] < b[Len(b)]
    ELSE MagLess(SubSeq(a, 1, Len(a) - 1), SubSeq(b, 1, Len(b) - 1))

\* a <= b on ints
IntLe(a, b) ==
    IF a.v.neg /\ ~b.v.neg THEN TRUE
    ELSE IF ~a.v.neg /\ b.v.neg THEN FALSE
    ELSE IF a.v.neg THEN ~MagLess(a.v.mag, b.v.mag)
    ELSE ~MagLess(b.v.mag, a.v.mag)

RECURSIVE MagAdd(_, _, _)
MagAdd(a, b, carry) ==
    IF a = <<>> /\ b = <<>> THEN (IF carry = 0 THEN <<>> ELSE <<carry>>)
    ELSE LET x == IF a = <<>> THEN 0 ELSE Head(a)
             y == IF b = <<>> THEN 0 ELSE Head(b)
             s == x + y + carry
         IN  <<s % 256>> \o MagAdd(IF a = <<>> THEN <<>> ELSE Tail(a),
                                   IF b = <<>> THEN <<>> ELSE Tail(b),
                                   s \div 256)

RECURSIVE MagSub(_, _, _)
\* a - b - borrow on magnitudes, for a >= b + borrow
MagSub(a, b, borrow) ==
    IF a = <<>> THEN <<>>
    ELSE LET y == IF b = <<>> THEN 0 ELSE Head(b)
             s == Head(a) - y - borrow
         IN  <<s % 256>> \o MagSub(Tail(a),
                                   IF b = <<>> THEN <<>> ELSE Tail(b),
                                   IF s < 0 THEN 1 ELSE 0)

IntAdd(a, b) ==
    IF a.v.neg = b.v.neg THEN BigInt(a.v.neg, MagAdd(a.v.mag, b.v.mag, 0))
    ELSE IF MagLess(a.v.mag, b.v.mag)
         THEN BigInt(b.v.neg, MagSub(b.v.mag, a.v.mag, 0))
         ELSE BigInt(a.v.neg, MagSub(a.v.mag, b.v.mag, 0))

IntSub(a, b) == IntAdd(a, BigInt(~b.v.neg, b.v.mag))

RECURSIVE Zeros(_)
Zeros(n) == IF n <= 0 THEN <<>> ELSE <<0>> \o Zeros(n - 1)

\* int.to_bytes(length, byteorder='little'), signed left at its default False
to_bytes(n, length) ==
    IF n.v.neg THEN Raise("OverflowError")
    ELSE IF Len(n.v.mag) > length THEN Raise("OverflowError")
    ELSE Ok(n.v.mag \o Zeros(length - Len(n.v.mag)))

\* struct.unpack("<H", b)[0] and struct.unpack("<I", b)[0]
unpack(b) == BigInt(FALSE, b)

(***************************************************************************)
(* ContentType and BasicNode                                               *)
(***************************************************************************)
ContentType ==
    {"BYTE", "SHORTINT", "WORD", "SMALLINT", "INTEGER", "CARDINAL",
     "INTEGER64BIT", "STRING", "FILE", "RAW"}

\* the inclusive limits of the integer kinds and their width in bytes
IntKind ==
    [BYTE         |-> [lo |-> PyInt(0), hi |-> PyInt(255), width |-> 1],
     SHORTINT     |-> [lo |-> PyInt(-128), hi |-> PyInt(127), width |-> 1],
     WORD         |-> [lo |-> PyInt(0), hi |-> PyInt(65535), width |-> 2],
     SMALLINT     |-> [lo |-> PyInt(-32768), hi |-> PyInt(32767), width |-> 2],
     INTEGER      |-> [lo |-> BigInt(TRUE, <<0, 0, 0, 128>>),
                       hi |-> BigInt(FALSE, <<255, 255, 255, 127>>), width |-> 4],
     CARDINAL     |-> [lo |-> PyInt(0),
                       hi |-> BigInt(FALSE, <<255, 255, 255, 255>>), width |-> 4],
     INTEGER64BIT |-> [lo |-> BigInt(TRUE, <<0, 0, 0, 0, 0, 0, 0, 128>>),
                       hi |-> BigInt(FALSE, <<255, 255, 255, 255, 255, 255, 255, 127>>),
                       width |-> 8]]

BasicNode(id, content, contenttype, children) ==
    [id |-> id, content |-> content, contenttype |-> contenttype,
     children |-> children]

\* one integer branch of _encodecontent: the range test (a TypeError of the
\* comparison becomes EncodingValueError), then to_bytes of the fixed width
EncodeInt(content, kind) ==
    IF content.t # "int" THEN Raise("EncodingValueError")
    ELSE IF ~(IntLe(IntKind[kind].lo, content) /\ IntLe(content, IntKind[kind].hi))
         THEN Raise("EncodingValueError")
    ELSE to_bytes(content, IntKind[kind].width)

\* the STRING branch: str.encode("latin1"); the handler of UnicodeEncodeError
\* formats with a name e that is not bound there
EncodeString(content) ==
    IF content.t # "str" THEN Raise("AttributeError")
    ELSE IF \E i \in 1..Len(content.v) : content.v[i] > 255
         THEN Raise("UnboundLocalError")
    ELSE Ok(content.v)

\* _encodecontent reporting a missing contenttype as a value error
_encodecontent_valueerror(self) ==
    IF self.contenttype = "None" THEN Raise("EncodingValueError")
    ELSE IF self.contenttype \in DOMAIN IntKind
         THEN EncodeInt(self.content, self.contenttype)
    ELSE IF self.contenttype = "STRING" THEN EncodeString(self.content)
    ELSE IF self.contenttype \in {"FILE", "RAW"}
         THEN IF self.content.t # "bytes" THEN Raise("EncodingValueError")
              ELSE Ok(self.content.v)
    ELSE Raise("MissingContentTypeError")

_encodecontent(self) ==
    IF self.contenttype = "None" THEN Raise("MissingContentTypeError")
    ELSE IF self.contenttype \in DOMAIN IntKind
         THEN EncodeInt(self.content, self.contenttype)
    ELSE IF self.contenttype = "STRING" THEN EncodeString(self.content)
    ELSE IF self.contenttype \in {"FILE", "RAW"}
         THEN IF self.content.t # "bytes" THEN Raise("EncodingValueError")
              ELSE Ok(self.content.v)
    ELSE Raise("MissingContentTypeError")

RECURSIVE encode(_)
RECURSIVE EncodeChildren(_, _)
RECURSIVE EncodeChildren_reversed(_, _)
\* the loop of encode taking self.children from the last to the first
EncodeChildren_reversed(children, result) ==
    IF children = <<>> THEN Ok(result)
    ELSE LET c == encode(children[Len(children)])
         IN  IF c.exc # "none" THEN c
             ELSE EncodeChildren_reversed(SubSeq(children, 1, Len(children) - 1),
                                          result \o c.val)

\* the loop of encode over self.children, appending to result
EncodeChildren(children, result) ==
    IF children = <<>> THEN Ok(result)
    ELSE LET c == encode(Head(children))
         IN  IF c.exc # "none" THEN c
             ELSE EncodeChildren(Tail(children), result \o c.val)

encode(self) ==
    LET start == IF self.children # <<>> THEN to_bytes(PyInt(0), 4).val ELSE <<>>
        bytecontent == IF self.content # None THEN _encodecontent(self) ELSE Ok(<<>>)
        bytecontentlength == to_bytes(PyInt(2 + Len(bytecontent.val)), 4)
        idbytes == IF self.id # None THEN to_bytes(self.id, 2) ELSE Ok(<<>>)
    IN  IF bytecontent.exc # "none" THEN bytecontent
        ELSE IF self.content # None /\ bytecontentlength.exc # "none"
             THEN bytecontentlength
        ELSE IF idbytes.exc # "none" THEN idbytes
        ELSE LET head == start
                        \o (IF self.content # None THEN bytecontentlength.val ELSE <<>>)
                        \o idbytes.val
                        \o bytecontent.val
             IN  IF self.children = <<>> THEN Ok(head)
                 ELSE LET body == EncodeChildren(self.children, head)
                      IN  IF body.exc # "none" THEN body
                          ELSE Ok(body.val \o <<255, 255, 255, 255>>)

(***************************************************************************)
(* StreamDecoder                                                           *)
(*                                                                         *)
(* A machine record m holds the fields of one StreamDecoder instance       *)
(* (state, root_node, current_node, content_length, bytecontent), the      *)
(* BasicNode objects it has allocated (heap, addressed by Ref), the local  *)
(* previous_state of _decode, the position pc of the running call, the     *)
(* exception that left the last call (error) and what it returned.         *)
(* consumed logs every _get_bytes call of the running decode call: the     *)
(* decoder state it was made in and the bytes it took from the iterator.   *)
(***************************************************************************)
DecoderState == {"RESET", "CONTRENTLENGTH", "NODEID", "NODEIDFORCONTENT", "CONTENT"}

Ref(i) == [t |-> "node", v |-> i]

NoError == [exc |-> "none", line |-> 0]

\* BasicNode(parent_node=parent) as the decoder allocates it
NewNode(parent) ==
    [id |-> None, content |-> None, contenttype |-> "None", children |-> <<>>,
     parent_node |-> parent]

RECURSIVE Tree(_, _)
\* the tree below heap object r, as the value BasicNode.__eq__ compares:
\* id, content, contenttype and children, not parent_node
Tree(heap, r) ==
    LET n == heap[r.v]
    IN  BasicNode(n.id, n.content, n.contenttype,
                  [k \in 1..Len(n.children) |-> Tree(heap, n.children[k])])

\* a == b on node references: None == node falls to the reflected
\* node.__eq__(None), which reads other.id
__eq__(heap, a, b) ==
    IF a = None \/ b = None THEN Raise("AttributeError")
    ELSE Ok(Tree(heap, a) = Tree(heap, b))

\* a fresh StreamDecoder: __init__ sets none of the decoding fields
NewDecoder ==
    [state |-> "unset", root_node |-> None, current_node |-> None,
     content_length |-> None, bytecontent |-> <<>>, heap |-> <<>>,
     previous_state |-> "None", pc |-> "idle", consumed |-> <<>>,
     error |-> NoError, returned |-> None]

\* reset leaving self.state as an earlier call has left it
reset_stale(m) ==
    [m EXCEPT !.state = IF m.state \in DecoderState THEN m.state ELSE "RESET",
              !.root_node = None, !.current_node = None,
              !.content_length = None]

reset(m) ==
    [m EXCEPT !.state = "RESET", !.root_node = None, !.current_node = None,
              !.content_length = None]

\* decode up to the first evaluation of the loop condition of _decode
decode(m, bytecontent) ==
    [reset(m) EXCEPT !.bytecontent = bytecontent, !.heap = <<>>,
                     !.previous_state = "None", !.pc = "loop",
                     !.consumed = <<>>, !.error = NoError, !.returned = None]

RECURSIVE MagNat(_)
MagNat(mag) == IF mag = <<>> THEN 0 ELSE Head(mag) + 256 * MagNat(Tail(mag))

\* _get_bytes handing back the bytes it got when the iterator runs dry
_get_bytes_short(m, length) ==
    LET avail == m.bytecontent
        want == IF IntLe(length, PyInt(0)) THEN 0
                ELSE IF IntLe(length, PyInt(Len(avail))) THEN MagNat(length.v.mag)
                ELSE Len(avail)
        data == SubSeq(avail, 1, want)
    IN  [m |-> [m EXCEPT !.bytecontent = SubSeq(avail, want + 1, Len(avail)),
                         !.consumed = Append(@, [state |-> m.state, data |-> data])],
         exc |-> "none",
         data |-> data]

\* _get_bytes: takes bytes one by one and raises when the iterator is
\* exhausted, the bytes taken so far being lost
_get_bytes(m, length) ==
    LET avail == m.bytecontent
        enough == IntLe(length, PyInt(Len(avail)))
        want == IF IntLe(length, PyInt(0)) THEN 0
                ELSE IF enough THEN MagNat(length.v.mag)
                ELSE Len(avail)
        data == SubSeq(avail, 1, want)
    IN  [m |-> [m EXCEPT !.bytecontent = SubSeq(avail, want + 1, Len(avail)),
                         !.consumed = Append(@, [state |-> m.state, data |-> data])],
         exc |-> IF enough THEN "none" ELSE "MissingBytesDecodeError",
         data |-> data]

\* an exception leaves _decode and decode: the fields stay as they are
Raised(m, exc, line) ==
    [m EXCEPT !.pc = "idle", !.error = [exc |-> exc, line |-> line]]

\* _decode returns and decode returns self.root_node
Returned(m) == [m EXCEPT !.pc = "idle", !.returned = m.root_node]

\* the RESET branch creating the root before it looks at the marker
ResetBranch_unchecked(m) ==
    LET g == _get_bytes(m, PyInt(4))
    IN  IF g.exc # "none" THEN Raised(g.m, g.exc, 185)
        ELSE LET heap == Append(g.m.heap, NewNode(None))
                 m1 == [g.m EXCEPT !.heap = heap, !.root_node = Ref(Len(heap)),
                                   !.current_node = Ref(Len(heap))]
             IN  IF g.data # to_bytes(PyInt(0), 4).val
                 THEN Raised(m1, "DecodeValueError", 196)
                 ELSE [m1 EXCEPT !.state = "NODEID"]

ResetBranch(m) ==
    LET g == _get_bytes(m, PyInt(4))
    IN  IF g.exc # "none" THEN Raised(g.m, g.exc, 185)
        ELSE IF g.data # to_bytes(PyInt(0), 4).val
             THEN Raised(g.m, "DecodeValueError", 196)
        ELSE LET heap == Append(g.m.heap, NewNode(None))
             IN  [g.m EXCEPT !.heap = heap, !.root_node = Ref(Len(heap)),
                             !.current_node = Ref(Len(heap)), !.state = "NODEID"]

\* the id branches asking for one byte only
NodeIdBranch_onebyte(m) ==
    LET g == _get_bytes(m, PyInt(1))
    IN  IF g.exc # "none" THEN Raised(g.m, g.exc, 185)
        ELSE IF g.m.current_node = None THEN Raised(g.m, "AttributeError", 202)
        ELSE [g.m EXCEPT !.heap[g.m.current_node.v].id = unpack(g.data),
                         !.state = IF m.state = "NODEIDFORCONTENT" THEN "CONTENT"
                                   ELSE "CONTRENTLENGTH"]

NodeIdBranch(m) ==
    LET g == _get_bytes(m, PyInt(2))
    IN  IF g.exc # "none" THEN Raised(g.m, g.exc, 185)
        ELSE IF g.m.current_node = None THEN Raised(g.m, "AttributeError", 202)
        ELSE [g.m EXCEPT !.heap[g.m.current_node.v].id = unpack(g.data),
                         !.state = IF m.state = "NODEIDFORCONTENT" THEN "CONTENT"
                                   ELSE "CONTRENTLENGTH"]

\* the close marker: the cursor moves to its parent, then return at the
\* root or continue, which re-evaluates the loop condition
CloseNode(m) ==
    LET parent == m.heap[m.current_node.v].parent_node
        m1 == [m EXCEPT !.current_node = parent, !.state = "CONTRENTLENGTH"]
        atroot == __eq__(m1.heap, m1.current_node, m1.root_node)
    IN  IF atroot.exc # "none" THEN Raised(m1, atroot.exc, 215)
        ELSE IF atroot.val THEN Returned(m1)
        ELSE m1

\* a length field: the new node is appended to the cursor's children but
\* is given the root as its parent_node
OpenNode_underroot(m, incoming_bytes) ==
    LET new_node == Ref(Len(m.heap) + 1)
        heap == [Append(m.heap, NewNode(m.root_node))
                    EXCEPT ![m.current_node.v].children = Append(@, new_node)]
        m1 == [m EXCEPT !.heap = heap, !.current_node = new_node]
        content_length == unpack(incoming_bytes)
    IN  IF content_length = PyInt(0) THEN [m1 EXCEPT !.state = "NODEID"]
        ELSE [m1 EXCEPT !.content_length = IntSub(unpack(incoming_bytes), PyInt(2)),
                        !.state = "NODEIDFORCONTENT"]

\* a length field: a new child of the cursor becomes the cursor
OpenNode(m, incoming_bytes) ==
    LET new_node == Ref(Len(m.heap) + 1)
        heap == [Append(m.heap, NewNode(m.current_node))
                    EXCEPT ![m.current_node.v].children = Append(@, new_node)]
        m1 == [m EXCEPT !.heap = heap, !.current_node = new_node]
        content_length == unpack(incoming_bytes)
    IN  IF content_length = PyInt(0) THEN [m1 EXCEPT !.state = "NODEID"]
        ELSE [m1 EXCEPT !.content_length = IntSub(unpack(incoming_bytes), PyInt(2)),
                        !.state = "NODEIDFORCONTENT"]

ContentLengthBranch(m) ==
    LET g == _get_bytes(m, PyInt(4))
    IN  IF g.exc # "none" THEN Raised(g.m, g.exc, 185)
        ELSE IF g.m.current_node = None THEN Raised(g.m, "AttributeError", 213)
        ELSE IF g.data = <<255, 255, 255, 255>> THEN CloseNode(g.m)
        ELSE OpenNode(g.m, g.data)

ContentBranch(m) ==
    LET g == _get_bytes(m, m.content_length)
    IN  IF g.exc # "none" THEN Raised(g.m, g.exc, 185)
        ELSE [g.m EXCEPT !.heap[m.current_node.v].content = PyBytes(g.data),
                         !.heap[m.current_node.v].contenttype = "RAW",
                         !.current_node = m.heap[m.current_node.v].parent_node,
                         !.state = "CONTRENTLENGTH"]

\* one iteration of the while loop of _decode, entered with
\* previous_state != self.state
Iteration(m) ==
    LET m1 == [m EXCEPT !.previous_state = m.state]
    IN  CASE m.state = "RESET" -> ResetBranch(m1)
          [] m.state \in {"NODEID", "NODEIDFORCONTENT"} -> NodeIdBranch(m1)
          [] m.state = "CONTRENTLENGTH" -> ContentLengthBranch(m1)
          [] m.state = "CONTENT" -> ContentBranch(m1)

\* the loop condition failed: the check after the loop
AfterLoop(m) ==
    LET same == __eq__(m.heap, m.current_node, m.root_node)
    IN  IF same.exc # "none" THEN Raised(m, same.exc, 239)
        ELSE IF ~same.val THEN Raised(m, "DecodeValueError", 240)
        ELSE Returned(m)

\* the next step of a running decode call
Step(m) == IF m.previous_state # m.state THEN Iteration(m) ELSE AfterLoop(m)

RECURSIVE Run(_)
\* a decode call run to its end
Run(m) == IF m.pc = "idle" THEN m ELSE Run(Step(m))

(***************************************************************************)
(* Inputs: the trees handed to encode and the buffers handed to decode     *)
(***************************************************************************)
MaxNodes == 3

MaxItems == 4

\* id, content and contenttype of the nodes of the trees that are encoded
Payloads ==
    {[id |-> PyInt(1), content |-> None, contenttype |-> "None"],
     [id |-> PyInt(258), content |-> None, contenttype |-> "None"],
     [id |-> None, content |-> None, contenttype |-> "None"],
     [id |-> PyInt(2), content |-> PyInt(42), contenttype |-> "BYTE"],
     [id |-> PyInt(2), content |-> PyInt(256), contenttype |-> "BYTE"],
     [id |-> PyInt(3), content |-> PyInt(42), contenttype |-> "None"],
     [id |-> PyInt(258), content |-> PyBytes(<<>>), contenttype |-> "RAW"],
     [id |-> PyInt(65536), content |-> None, contenttype |-> "None"]}

RECURSIVE TreesOfSize(_)
RECURSIVE ForestsOfSize(_)
\* the sequences of trees with k nodes in total
ForestsOfSize(k) ==
    IF k = 0 THEN {<<>>}
    ELSE UNION {{<<t>> \o f : t \in TreesOfSize(j), f \in ForestsOfSize(k - j)} :
                j \in 1..k}

\* the trees with k nodes
TreesOfSize(k) ==
    {BasicNode(p.id, p.content, p.contenttype, f) :
        p \in Payloads, f \in ForestsOfSize(k - 1)}

Trees == UNION {TreesOfSize(k) : k \in 1..MaxNodes}

\* pieces of a byte stream: a container opening with its id (the root
\* marker or a zero length field), leaf frames with length fields 3, 2 and
\* 1, and the close marker
Items ==
    {<<0, 0, 0, 0, 1, 0>>,
     <<3, 0, 0, 0, 2, 0, 42>>,
     <<2, 0, 0, 0, 2, 1>>,
     <<1, 0, 0, 0, 2, 0>>,
     <<255, 255, 255, 255>>}

RECURSIVE ItemStrings(_)
\* the concatenations of at most k items
ItemStrings(k) ==
    IF k = 0 THEN {<<>>}
    ELSE {<<>>} \cup {i \o s : i \in Items, s \in ItemStrings(k - 1)}

Prefixes(b) == {SubSeq(b, 1, n) : n \in 0..Len(b)}

\* root marker, id 100, close marker
Example100 == <<0, 0, 0, 0, 100, 0, 255, 255, 255, 255>>

\* the buffers decoded directly: every prefix of every item string
Buffers == UNION {Prefixes(b) : b \in ItemStrings(MaxItems) \cup {Example100}}

\* the contents handed to _encodecontent: the limits of every integer kind
\* and their neighbours, some small ints, strings inside and outside
\* Latin-1, and bytes
Contents ==
    UNION {{IntSub(IntKind[k].lo, PyInt(1)), IntKind[k].lo, IntKind[k].hi,
            IntAdd(IntKind[k].hi, PyInt(1))} : k \in DOMAIN IntKind}
    \cup {PyInt(-1), PyInt(1), PyInt(42), PyInt(258), PyInt(-129 * 256)}
    \cup {PyStr(<<>>), PyStr(<<97>>), PyStr(<<233, 97, 255>>), PyStr(<<8364>>),
          PyStr(<<97, 256>>)}
    \cup {PyBytes(<<>>), PyBytes(<<1, 2>>)}

\* the values of the contenttype field: the kinds, None, and a value that is
\* no member of ContentType
ContentTypeValues == ContentType \cup {"None", "no ContentType"}

RECURSIVE PreOrder(_)
RECURSIVE PreOrderAll(_)
PreOrderAll(ts) ==
    IF ts = <<>> THEN <<>> ELSE PreOrder(Head(ts)) \o PreOrderAll(Tail(ts))

\* the nodes of a tree, depth first, a node before its children
PreOrder(t) == <<t>> \o PreOrderAll(t.children)

\* a container root; every node has an id that fits two bytes; a node with
\* children has no content and a node without children has valid content
RoundTripTree(t) ==
    /\ t.children # <<>>
    /\ \A i \in 1..Len(PreOrder(t)) :
          LET n == PreOrder(t)[i]
          IN  /\ n.id # None
              /\ to_bytes(n.id, 2).exc = "none"
              /\ n.children # <<>> => n.content = None
              /\ n.children = <<>> =>
                    n.content # None /\ _encodecontent(n).exc = "none"

\* the messages fed in two chunks: the encodings of such trees that one
\* decode call on the whole turns into a tree
Messages == {encode(t).val : t \in {u \in Trees : RoundTripTree(u)}}

ChunkMessages ==
    {b \in Messages : Run(decode(NewDecoder, b)).returned # None}

NoTree == BasicNode(None, None, "None", <<>>)

Source(kind, tree, bytes, at) ==
    [kind |-> kind, tree |-> tree, bytes |-> bytes, at |-> at]

\* buffers for repeated calls on one decoder: one that decodes, and failures
\* in each decoder state and at each raise of _decode
Histories ==
    {<<>>,
     <<255, 255, 255, 255>>,
     <<0, 0, 0, 0, 1>>,
     <<0, 0, 0, 0, 1, 0>>,
     <<0, 0, 0, 0, 1, 0, 3, 0, 0, 0, 2>>,
     <<0, 0, 0, 0, 1, 0, 3, 0, 0, 0, 2, 0>>,
     <<0, 0, 0, 0, 1, 0, 1, 0, 0, 0, 2, 0>>,
     <<0, 0, 0, 0, 1, 0, 255, 255, 255, 255>>,
     <<0, 0, 0, 0, 1, 0, 0, 0, 0, 0, 2, 0, 255, 255, 255, 255>>,
     <<0, 0, 0, 0, 1, 0, 0, 0, 0, 0, 2, 0, 0, 0, 0, 0, 3, 0, 255, 255, 255, 255>>}

Sources ==
    {Source("tree", t, <<>>, 0) : t \in Trees}
    \cup {Source("raw", NoTree, b, 0) : b \in Buffers}
    \cup UNION {{Source("chunks", NoTree, b, n) : n \in 0..Len(b)} :
                b \in ChunkMessages}
    \cup {Source("sequence", NoTree, a \o b, Len(a)) : a, b \in Histories}

ContentSources ==
    {Source("content", BasicNode(None, c, k, <<>>), <<>>, 0) :
        c \in Contents, k \in ContentTypeValues}

(***************************************************************************)
(* State                                                                   *)
(***************************************************************************)
VARIABLES
    source,          \* what the caller does: encode a tree and decode the
                     \* result, decode a buffer, feed a message in chunks,
                     \* or decode a sequence of buffers with one decoder
    encoded,         \* the outcome of tree.encode(), [exc, val]
    pending,         \* the buffers still to be passed to decode, in order
    calls,           \* the finished decode calls: argument, error, tree
    bytearg,         \* the argument of the running or last decode call
    state, root_node, current_node, content_length, bytecontent,
    heap, previous_state, pc, consumed, error, returned

vars ==
    <<source, encoded, pending, calls, bytearg, state, root_node,
      current_node, content_length, bytecontent, heap, previous_state, pc,
      consumed, error, returned>>

NotEncoded == [exc |-> "not called", val |-> <<>>]

\* the StreamDecoder instance and its running call as one record
Machine ==
    [state |-> state, root_node |-> root_node, current_node |-> current_node,
     content_length |-> content_length, bytecontent |-> bytecontent,
     heap |-> heap, previous_state |-> previous_state, pc |-> pc,
     consumed |-> consumed, error |-> error, returned |-> returned]

Install(m) ==
    /\ state' = m.state
    /\ root_node' = m.root_node
    /\ current_node' = m.current_node
    /\ content_length' = m.content_length
    /\ bytecontent' = m.bytecontent
    /\ heap' = m.heap
    /\ previous_state' = m.previous_state
    /\ pc' = m.pc
    /\ consumed' = m.consumed
    /\ error' = m.error
    /\ returned' = m.returned

\* what the caller of decode gets: the exception or the returned tree
Outcome(m, arg) ==
    [bytecontent |-> arg, error |-> m.error,
     tree |-> IF m.returned = None THEN <<>> ELSE <<Tree(m.heap, m.returned)>>]

InitWith(src) ==
    /\ source = src
    /\ encoded = NotEncoded
    /\ pending = CASE src.kind = "raw" -> <<src.bytes>>
                   [] src.kind = "chunks" ->
                        <<SubSeq(src.bytes, 1, src.at),
                          SubSeq(src.bytes, src.at + 1, Len(src.bytes))>>
                   [] src.kind = "sequence" ->
                        <<SubSeq(src.bytes, 1, src.at),
                          SubSeq(src.bytes, src.at + 1, Len(src.bytes)),
                          SubSeq(src.bytes, 1, src.at)>>
                   [] OTHER -> <<>>
    /\ calls = <<>>
    /\ bytearg = <<>>
    /\ state = NewDecoder.state
    /\ root_node = NewDecoder.root_node
    /\ current_node = NewDecoder.current_node
    /\ content_length = NewDecoder.content_length
    /\ bytecontent = NewDecoder.bytecontent
    /\ heap = NewDecoder.heap
    /\ previous_state = NewDecoder.previous_state
    /\ pc = NewDecoder.pc
    /\ consumed = NewDecoder.consumed
    /\ error = NewDecoder.error
    /\ returned = NewDecoder.returned

Init == \E src \in Sources : InitWith(src)

InitContent == \E src \in ContentSources : InitWith(src)

(***************************************************************************)
(* Operations                                                              *)
(***************************************************************************)
\* source.tree.encode(); the bytes, if any, are what decode is called with
EncodeTree ==
    /\ source.kind = "tree"
    /\ encoded = NotEncoded
    /\ encoded' = encode(source.tree)
    /\ pending' = IF encoded'.exc = "none" THEN <<encoded'.val>> ELSE <<>>
    /\ UNCHANGED <<source, calls, bytearg, state, root_node, current_node,
                   content_length, bytecontent, heap, previous_state, pc,
                   consumed, error, returned>>

\* decoder.decode(Head(pending)) up to the loop of _decode
DecodeCall ==
    /\ pc = "idle"
    /\ pending # <<>>
    /\ Install(decode(Machine, Head(pending)))
    /\ bytearg' = Head(pending)
    /\ pending' = Tail(pending)
    /\ UNCHANGED <<source, encoded, calls>>

\* one step of the running call; a step that leaves decode hands the
\* outcome to the caller
Advance ==
    /\ pc = "loop"
    /\ LET m == Step(Machine)
       IN  /\ Install(m)
           /\ calls' = IF m.pc = "idle" THEN Append(calls, Outcome(m, bytearg))
                       ELSE calls
    /\ UNCHANGED <<source, encoded, pending, bytearg>>

DoReset == previous_state # state /\ state = "RESET" /\ Advance

DoNodeId ==
    previous_state # state /\ state \in {"NODEID", "NODEIDFORCONTENT"} /\ Advance

DoContentLength == previous_state # state /\ state = "CONTRENTLENGTH" /\ Advance

DoContent == previous_state # state /\ state = "CONTENT" /\ Advance

DoAfterLoop == previous_state = state /\ Advance

Next ==
    \/ EncodeTree
    \/ DecodeCall
    \/ DoReset
    \/ DoNodeId
    \/ DoContentLength
    \/ DoContent
    \/ DoAfterLoop

Spec == Init /\ [][Next]_vars

\* source.tree._encodecontent() on a node that has content
EncodeContent ==
    /\ source.kind = "content"
    /\ encoded = NotEncoded
    /\ encoded' = _encodecontent(source.tree)
    /\ UNCHANGED <<source, pending, calls, bytearg, state, root_node,
                   current_node, content_length, bytecontent, heap,
                   previous_state, pc, consumed, error, returned>>

NextContent == EncodeContent

SpecContent == InitContent /\ [][NextContent]_vars

(***************************************************************************)
(* Properties                                                              *)
(***************************************************************************)
\* a decode call has ended and the next one has not begun
Finished == pc = "idle" /\ calls # <<>>

LastCall == calls[Len(calls)]

RECURSIVE Emitted(_)
\* ids and children of a tree, each content replaced by its encoded bytes
Emitted(t) ==
    [id |-> t.id,
     content |-> IF t.content = None THEN None
                 ELSE PyBytes(_encodecontent(t).val),
     children |-> [k \in 1..Len(t.children) |-> Emitted(t.children[k])]]

RECURSIVE Skeleton(_)
\* ids, contents and children of a tree
Skeleton(t) ==
    [id |-> t.id, content |-> t.content,
     children |-> [k \in 1..Len(t.children) |-> Skeleton(t.children[k])]]

\* C1: for every tree with valid leaf content and no node with both content
\* and children, encoding succeeds and decoding the encoding returns,
\* without error, a tree with the same ids and children and with each
\* leaf's content equal to the bytes emitted for it.
C1_RoundTrip ==
    (source.kind = "tree" /\ RoundTripTree(source.tree) /\ Finished) =>
        /\ encoded.exc = "none"
        /\ LastCall.error = NoError
        /\ LastCall.tree # <<>>
        /\ Skeleton(LastCall.tree[1]) = Emitted(source.tree)

\* C2: decoding 00 00 00 00 64 00 FF FF FF FF succeeds and returns a root
\* with exactly one child, of id 100, without content and without children.
C2_Example100 ==
    (Finished /\ bytearg = Example100) =>
        /\ LastCall.error = NoError
        /\ LastCall.tree # <<>>
        /\ Len(LastCall.tree[1].children) = 1
        /\ LastCall.tree[1].children[1].id = PyInt(100)
        /\ LastCall.tree[1].children[1].content = None
        /\ LastCall.tree[1].children[1].children = <<>>

\* C3: a message fed to one decoder as two consecutive non-empty chunks, in
\* two decode calls, yields with the second call the tree that one decode
\* call on the whole message returns.
C3_Chunked ==
    (/\ source.kind = "chunks"
     /\ 0 < source.at /\ source.at < Len(source.bytes)
     /\ Len(calls) = 2) =>
        /\ calls[2].error = NoError
        /\ calls[2].tree # <<>>
        /\ calls[2].tree =
              Outcome(Run(decode(NewDecoder, source.bytes)), source.bytes).tree

\* the container opens and the close markers among the fields read
Opens(log) ==
    Cardinality({i \in 1..Len(log) :
        log[i].state \in {"RESET", "CONTRENTLENGTH"} /\ log[i].data = <<0, 0, 0, 0>>})

Closes(log) ==
    Cardinality({i \in 1..Len(log) :
        log[i].state = "CONTRENTLENGTH" /\ log[i].data = <<255, 255, 255, 255>>})

\* C4: whenever decode returns a tree, it has consumed as many close
\* markers as container opens (the root marker and the zero length fields).
C4_Balanced ==
    (Finished /\ returned # None) => Closes(consumed) = Opens(consumed)

\* C5: a buffer of at least 4 bytes that does not start with 00 00 00 00
\* fails with the framing DecodeValueError in state RESET, with no node
\* created, root and cursor unset, and only those 4 bytes consumed.
C5_Framing ==
    (Finished /\ Len(bytearg) >= 4 /\ SubSeq(bytearg, 1, 4) # <<0, 0, 0, 0>>) =>
        /\ error = [exc |-> "DecodeValueError", line |-> 196]
        /\ returned = None
        /\ state = "RESET"
        /\ root_node = None
        /\ current_node = None
        /\ heap = <<>>
        /\ Len(consumed) = 1
        /\ bytecontent = SubSeq(bytearg, 5, Len(bytearg))

C5_Witness ==
    /\ Finished
    /\ Len(bytearg) > 4
    /\ SubSeq(bytearg, 1, 4) # <<0, 0, 0, 0>>
    /\ error.exc = "DecodeValueError"

RECURSIVE LeafFrames(_)
\* the concatenations of at most k complete leaf frames
LeafFrames(k) ==
    IF k = 0 THEN {<<>>}
    ELSE {<<>>} \cup {f \o s : f \in {<<3, 0, 0, 0, 2, 0, 42>>, <<2, 0, 0, 0, 2, 1>>},
                              s \in LeafFrames(k - 1)}

\* root marker and id, then complete child frames, and no close marker
Unclosed == {<<0, 0, 0, 0, 1, 0>> \o s : s \in LeafFrames(MaxItems - 1)}

\* C6: a buffer that opens a container and ends without the close marker
\* fails with the DecodeValueError raised after the loop ("Not all nodes
\* have been closed").
C6_Incomplete ==
    (Finished /\ source.kind = "raw" /\ bytearg \in Unclosed) =>
        error = [exc |-> "DecodeValueError", line |-> 240]

\* the iterator holds fewer bytes than the field of the current state needs
Starved ==
    CASE state \in {"RESET", "CONTRENTLENGTH"} -> Len(bytecontent) < 4
      [] state \in {"NODEID", "NODEIDFORCONTENT"} -> Len(bytecontent) < 2
      [] state = "CONTENT" -> ~IntLe(content_length, PyInt(Len(bytecontent)))
      [] OTHER -> FALSE

TwosComplement(v, width) ==
    IF v.v.neg THEN SubSeq(MagSub(Zeros(width) \o <<1>>, v.v.mag, 0), 1, width)
    ELSE v.v.mag \o Zeros(width - Len(v.v.mag))

\* C8: for the seven integer kinds and every int v, content encoding yields
\* the kind's width of bytes holding v little-endian (two's complement for
\* the signed kinds) when v is in the kind's range, and fails with
\* EncodingValueError when it is not.
C8_Integers ==
    (/\ source.kind = "content"
     /\ encoded # NotEncoded
     /\ source.tree.contenttype \in DOMAIN IntKind
     /\ source.tree.content.t = "int") =>
        LET v == source.tree.content
            kind == IntKind[source.tree.contenttype]
        IN  encoded = IF IntLe(kind.lo, v) /\ IntLe(v, kind.hi)
                      THEN Ok(TwosComplement(v, kind.width))
                      ELSE Raise("EncodingValueError")

\* C9: String content with a character outside Latin-1 fails with
\* EncodingValueError; String content inside Latin-1 encodes to one byte
\* per character.
C9_String ==
    (/\ source.kind = "content"
     /\ encoded # NotEncoded
     /\ source.tree.contenttype = "STRING"
     /\ source.tree.content.t = "str") =>
        LET chars == source.tree.content.v
        IN  IF \E i \in 1..Len(chars) : chars[i] > 255
            THEN encoded = Raise("EncodingValueError")
            ELSE encoded.exc = "none" /\ Len(encoded.val) = Len(chars)

\* content present without a contenttype
MissingKind(n) == n.content # None /\ n.contenttype = "None"

\* the outcome of encoding a node without its children
Alone(n) == encode([n EXCEPT !.children = <<>>])

\* C10 as stated: a tree with a node, at any depth, that has content but no
\* contenttype fails to encode with MissingContentTypeError; without such a
\* node that error is never raised.
C10_Original ==
    (source.kind = "tree" /\ encoded # NotEncoded) =>
        LET pre == PreOrder(source.tree)
            missing == \E i \in 1..Len(pre) : MissingKind(pre[i])
        IN  /\ missing => encoded = Raise("MissingContentTypeError")
            /\ encoded.exc = "MissingContentTypeError" => missing

\* C10 amended: a tree with a node that has content but no contenttype never
\* encodes to bytes; the error is MissingContentTypeError when no node
\* before that node in depth-first pre-order fails on its own, and
\* otherwise the error of the first node that does; without such a node
\* MissingContentTypeError is never raised.
C10_Amended ==
    (source.kind = "tree" /\ encoded # NotEncoded) =>
        LET pre == PreOrder(source.tree)
            missing == {i \in 1..Len(pre) : MissingKind(pre[i])}
            failing == {i \in 1..Len(pre) : Alone(pre[i]).exc # "none"}
            first == CHOOSE i \in failing : \A j \in failing : i <= j
        IN  /\ missing # {} => encoded.exc # "none" /\ encoded.val = <<>>
            /\ missing # {} /\ first \in missing =>
                  encoded = Raise("MissingContentTypeError")
            /\ missing # {} /\ first \notin missing =>
                  encoded = Alone(pre[first])
            /\ encoded.exc = "MissingContentTypeError" => missing # {}

C10_Witness ==
    /\ source.kind = "tree"
    /\ encoded = Raise("MissingContentTypeError")
    /\ Len(PreOrder(source.tree)) = MaxNodes
    /\ MissingKind(PreOrder(source.tree)[MaxNodes])
    /\ PreOrder(source.tree)[2].children # <<>>

\* n in width bytes, little-endian
LittleEndian(n, width) == [k \in 1..width |-> (n \div (256 ^ (k - 1))) % 256]

\* the two id bytes of a node, none when it has no id
IdField(n) == IF n.id = None THEN <<>> ELSE LittleEndian(MagNat(n.id.v.mag), 2)

RECURSIVE ChildFrames(_)
\* the encodings of the nodes of a list, one after the other
ChildFrames(children) ==
    IF children = <<>> THEN <<>>
    ELSE encode(Head(children)).val \o ChildFrames(Tail(children))

\* marker, id, the children's encodings, close marker
ContainerFrame(n) ==
    <<0, 0, 0, 0>> \o IdField(n) \o ChildFrames(n.children) \o <<255, 255, 255, 255>>

\* the nodes of the encoded tree whose own encoding succeeds
EncodedNodes ==
    IF source.kind = "tree" /\ encoded.exc = "none"
    THEN {PreOrder(source.tree)[i] : i \in 1..Len(PreOrder(source.tree))}
    ELSE {}

\* C11: a node with one or more children encodes as a container only: open
\* marker, id, the children's encodings and the close marker, with no
\* length field and no content bytes of its own, also when the node has
\* content set.
C11_ContainerOnly ==
    /\ \A n \in EncodedNodes : n.children # <<>> => encode(n).val = ContainerFrame(n)
    /\ (EncodedNodes # {} /\ source.tree.children # <<>>) =>
          encoded.val = ContainerFrame(source.tree)

\* length-or-zero field, id, content bytes of a node without children
LeafFrame(n) ==
    LET bytes == IF n.content = None THEN <<>> ELSE _encodecontent(n).val
    IN  (IF n.content = None THEN <<0, 0, 0, 0>>
         ELSE LittleEndian(2 + Len(bytes), 4))
        \o IdField(n) \o bytes

\* C12: a node with an id and no children encodes as a 4-byte field, its
\* 2-byte id and its content bytes: the field holds 2 + the number of
\* content bytes when the node has content, and is zero when it has none.
C12_LeafFrame ==
    /\ \A n \in EncodedNodes :
          (n.children = <<>> /\ n.id # None) => encode(n).val = LeafFrame(n)
    /\ (EncodedNodes # {} /\ source.tree.children = <<>> /\ source.tree.id # None) =>
          encoded.val = LeafFrame(source.tree)

\* C13: after a decode call has failed with an error the decoder holds no
\* reference to the partly built tree (root node and cursor are unset) and
\* the caller has received no tree.
C13_Discarded ==
    (Finished /\ error # NoError) =>
        /\ root_node = None
        /\ current_node = None
        /\ returned = None
        /\ LastCall.tree = <<>>

\* the field read last was a close marker and it moved the cursor to a node
\* below the root
ClosedBelowRoot ==
    /\ consumed # <<>>
    /\ consumed[Len(consumed)] =
          [state |-> "CONTRENTLENGTH", data |-> <<255, 255, 255, 255>>]
    /\ current_node # None
    /\ current_node # root_node

\* C14: after a close marker read in CONTRENTLENGTH has moved the cursor to
\* a node that is not the root, the call is still running in CONTRENTLENGTH
\* and has raised no error.
C14_NestedClose ==
    ClosedBelowRoot => pc = "loop" /\ state = "CONTRENTLENGTH" /\ error = NoError

\* C15: a node with children and no content encodes as exactly the zero
\* marker, its two id bytes (little-endian) when it has an id, the
\* encodings of its children in list order, and the all-ones close marker;
\* this holds of the containers at every depth of the tree, so that the
\* markers of the whole encoding pair up and nest as the tree does.
C15_Container ==
    /\ \A n \in EncodedNodes :
          (n.children # <<>> /\ n.content = None) =>
              encode(n) = Ok(ContainerFrame(n))
    /\ (EncodedNodes # {} /\ source.tree.children # <<>> /\ source.tree.content = None) =>
          encoded = Ok(ContainerFrame(source.tree))

C15_Witness ==
    /\ source.kind = "tree"
    /\ encoded.exc = "none"
    /\ source.tree.content = None
    /\ source.tree.id # None
    /\ Len(source.tree.children) = 2
    /\ encode(source.tree.children[1]).val # encode(source.tree.children[2]).val
    /\ encode(source.tree.children[2]).val # <<>>

\* the positions in the log of the length fields that opened a node
FramePositions(log) ==
    {p \in 1..Len(log) :
        log[p].state = "CONTRENTLENGTH" /\ log[p].data # <<255, 255, 255, 255>>}

\* the position of the k-th of them; node k + 1 of the heap was made there
FramePosition(log, k) ==
    CHOOSE p \in FramePositions(log) :
        Cardinality({q \in FramePositions(log) : q < p}) = k - 1

RECURSIVE Offset(_, _)
\* the number of bytes taken by the first p reads of the log
Offset(log, p) == IF p = 0 THEN 0 ELSE Offset(log, p - 1) + Len(log[p].data)

\* C16: in a tree that decode returns, a node with content has kind RAW and
\* no children, and its content is the (length field - 2) bytes that follow
\* its id in the buffer; a node made from a zero length field, and the
\* root, have no content and no contenttype.
C16_Leaves ==
    (Finished /\ returned # None) =>
        /\ heap[1].content = None /\ heap[1].contenttype = "None"
        /\ \A j \in 2..Len(heap) :
              LET n == heap[j]
                  p == FramePosition(consumed, j - 1)
                  field == unpack(consumed[p].data)
                  from == Offset(consumed, p + 1)
              IN  /\ field = PyInt(0) => n.content = None /\ n.contenttype = "None"
                  /\ n.content # None =>
                        /\ n.contenttype = "RAW"
                        /\ n.children = <<>>
                        /\ n.content.t = "bytes"
                        /\ PyInt(Len(n.content.v)) = IntSub(field, PyInt(2))
                        /\ n.content.v =
                              SubSeq(bytearg, from + 1, from + Len(n.content.v))

\* the length field read last
LastLengthField ==
    LET P == FramePositions(consumed)
    IN  unpack(consumed[CHOOSE p \in P : \A q \in P : q <= p].data)

\* C18: whenever the decoder is in state CONTENT, content_length is an
\* integer that is not negative and equals the length field minus 2.
C18_PendingLength ==
    (pc = "loop" /\ state = "CONTENT") =>
        /\ content_length.t = "int"
        /\ content_length = IntSub(LastLengthField, PyInt(2))
        /\ IntLe(PyInt(0), content_length)

RECURSIVE Reaches(_, _, _, _)
\* following parent_node from r arrives at root within n steps
Reaches(h, r, root, n) ==
    IF r = None THEN FALSE
    ELSE IF r = root THEN TRUE
    ELSE IF n = 0 THEN FALSE
    ELSE Reaches(h, h[r.v].parent_node, root, n - 1)

\* the number of times r is in a children list
Occurrences(children, r) == Cardinality({k \in 1..Len(children) : children[k] = r})

\* C17: while the loop runs after the RESET branch, the cursor is the root or
\* a node below it; every node but the root is exactly once in the children
\* of its parent_node and in no other children list; the root is nobody's
\* child; and the children of a node are in the order their frames were read.
C17_TreeShape ==
    (pc = "loop" /\ state # "RESET") =>
        /\ root_node = Ref(1)
        /\ heap[1].parent_node = None
        /\ \A k \in 1..Len(heap) : Occurrences(heap[k].children, root_node) = 0
        /\ current_node # None
        /\ current_node.v \in 1..Len(heap)
        /\ Reaches(heap, current_node, root_node, Len(heap))
        /\ \A j \in 2..Len(heap) :
              /\ heap[j].parent_node # None
              /\ \A k \in 1..Len(heap) :
                    Occurrences(heap[k].children, Ref(j)) =
                        IF Ref(k) = heap[j].parent_node THEN 1 ELSE 0
        /\ \A k \in 1..Len(heap) :
              \A a, b \in 1..Len(heap[k].children) :
                  a < b => FramePosition(consumed, heap[k].children[a].v - 1)
                              < FramePosition(consumed, heap[k].children[b].v - 1)

C17_Witness ==
    /\ pc = "loop"
    /\ Len(heap) = 4
    /\ Len(heap[1].children) = 2
    /\ heap[4].parent_node = Ref(3)
    /\ current_node = Ref(4)

\* the i-th iteration of the running call got the bytes it asked for
Completed(i) == i < Len(consumed) \/ error.exc # "MissingBytesDecodeError"

\* content_length at the i-th iteration, a CONTENT read: set from the
\* length field read two iterations earlier
PendingAt(i) == IntSub(unpack(consumed[i - 2].data), PyInt(2))

\* every completed iteration but a CONTENT read of pending length 0 takes
\* at least 2 bytes
C19_TwoBytes ==
    \A i \in 1..Len(consumed) :
        Completed(i) =>
            \/ Len(consumed[i].data) >= 2
            \/ consumed[i].state = "CONTENT" /\ PendingAt(i) = PyInt(0)

\* no two completed iterations in a row take no byte
C19_NoStall ==
    \A i \in 1..Len(consumed) - 1 :
        Completed(i + 1) => consumed[i].data # <<>> \/ consumed[i + 1].data # <<>>

\* a call that has ended has returned a tree or raised, and it has made at
\* most one iteration more than the buffer has bytes
C19_Ends ==
    /\ Len(consumed) <= Len(bytearg) + 1
    /\ Finished => (returned # None) # (error # NoError)

\* C19 as stated: decode terminates on every finite buffer: no two
\* iterations in a row consume no byte, every iteration other than a CONTENT
\* read of pending length 0 consumes at least 2 bytes, and the call ends by
\* returning a tree or by raising an error.
C19_Original == C19_NoStall /\ C19_TwoBytes /\ C19_Ends

\* every completed iteration takes the bytes of its field: 4 in RESET and
\* CONTRENTLENGTH, 2 in NODEID and NODEIDFORCONTENT, and in CONTENT as many
\* as content_length when that is positive and none otherwise
C19_FieldBytes ==
    \A i \in 1..Len(consumed) :
        Completed(i) =>
            CASE consumed[i].state \in {"RESET", "CONTRENTLENGTH"} ->
                    Len(consumed[i].data) = 4
              [] consumed[i].state \in {"NODEID", "NODEIDFORCONTENT"} ->
                    Len(consumed[i].data) = 2
              [] consumed[i].state = "CONTENT" ->
                    IF IntLe(PendingAt(i), PyInt(0)) THEN consumed[i].data = <<>>
                    ELSE PyInt(Len(consumed[i].data)) = PendingAt(i)

\* C19 amended: decode terminates on every finite buffer: every completed
\* iteration consumes 4 bytes (RESET, CONTRENTLENGTH), 2 bytes (NODEID,
\* NODEIDFORCONTENT) or, in CONTENT, the pending length when it is positive
\* and nothing otherwise; no two completed iterations in a row consume no
\* byte; and the call ends, after at most one iteration more than the
\* buffer has bytes, by returning a tree or by raising an error.
C19_Amended == C19_NoStall /\ C19_FieldBytes /\ C19_Ends

C19_Witness ==
    /\ Finished
    /\ error.exc = "MissingBytesDecodeError"
    /\ \E i, j \in 1..Len(consumed) :
          /\ consumed[i].state = "CONTENT" /\ Len(consumed[i].data) = 1
          /\ consumed[j].state = "CONTENT" /\ consumed[j].data = <<>>
          /\ i < j /\ j < Len(consumed)

\* the outcome of decode(b) on a StreamDecoder that has made no call before
FreshOutcome(b) == Outcome(Run(decode(NewDecoder, b)), b)

\* C20: the outcome of a decode call (the tree returned or the error) is
\* that of the same bytes on a fresh decoder, whatever calls the instance
\* has made before, and two calls with the same bytes have the same
\* outcome; every call starts in state RESET with root_node, current_node
\* and content_length cleared.
C20_HistoryFree ==
    /\ \A k \in 1..Len(calls) : calls[k] = FreshOutcome(calls[k].bytecontent)
    /\ \A j, k \in 1..Len(calls) :
          calls[j].bytecontent = calls[k].bytecontent => calls[j] = calls[k]
    /\ (pc = "loop" /\ previous_state = "None") =>
          /\ state = "RESET"
          /\ root_node = None
          /\ current_node = None
          /\ content_length = None

C20_Witness ==
    /\ source.kind = "sequence"
    /\ Len(calls) = 3
    /\ calls[1].error.exc = "MissingBytesDecodeError"
    /\ calls[2].tree # <<>>
    /\ calls[3] = calls[1]
    /\ calls[3].bytecontent # <<>>

====
